---- MODULE Spec2Model ----
(***************************************************************************)
(* Model of tuin_tool: the schema and connection manager of                *)
(* lib/tuin_store.py and the query script find_link.py.                    *)
(*                                                                         *)
(* The database is one SQLite file.  It is modelled by whether the file    *)
(* exists and, per table stored in it, the constraints the table was       *)
(* created with and the rows it holds.  The DDL of a table is what         *)
(* Base.metadata.create_all emits for the Column declarations.             *)
(*                                                                         *)
(* Optional values (Python None, SQL NULL) are modelled as sequences of    *)
(* length 0 or 1: None is <<>>, a value v is <<v>>.  Text values are       *)
(* sequences of one-character strings.                                     *)
(***************************************************************************)
EXTENDS Integers, Sequences, FiniteSets, TLC

VARIABLES
    fileExists,   \* the file at the configured path exists
    tables,       \* table name -> [cols, pk, notnull, unique, rows] of the file
    cfg,          \* the configuration returned by my_env.init_env
    rpc,          \* DirectConn: position of the rebuild caller
    rres,         \* DirectConn: outcome of the last rebuild() call
    self_db,      \* DirectConn.db
    dbConn,       \* DirectConn.dbConn
    cur,          \* DirectConn.cur
    inres,        \* outcome of the loader's last insert (session.add + commit)
    qpc,          \* find_link: position in the script
    qerr,         \* find_link: the exception that ended the script
    db,           \* find_link: db
    tuin,         \* find_link: tuin, the session
    contents,     \* find_link: contents, the materialised match list
    it,           \* find_link: position of the for loop's iterator
    cnt,          \* find_link: cnt
    output        \* find_link: what was printed, one element per print call

vars == <<fileExists, tables, cfg, rpc, rres, self_db, dbConn, cur, inres,
          qpc, qerr, db, tuin, contents, it, cnt, output>>

dcVars == <<rpc, rres, self_db, dbConn, cur>>
qVars  == <<qpc, qerr, db, tuin, contents, it, cnt, output>>

----------------------------------------------------------------------------
(* Bounds *)

\* Integer column values used by inserts are 1..MaxInt.
MaxInt == 2
\* Inserts are accepted while the file holds fewer than MaxRows rows in all.
MaxRows == 2

----------------------------------------------------------------------------
(* Optional values *)

None == <<>>
Some(v) == <<v>>
IsNone(o) == o = <<>>
Get(o) == o[1]

Range(s) == {s[i] : i \in DOMAIN s}

----------------------------------------------------------------------------
(* The declared schema: Base.metadata *)

DeclaredTables ==
    {"content", "flickr", "flickrdetails", "history", "lophoto",
     "node", "taxonomy", "term", "vocabulary", "users"}

Columns(t) ==
    CASE t = "content"       -> {"id", "node_id", "title", "body"}
      [] t = "flickr"        -> {"id", "node_id", "photo_id"}
      [] t = "flickrdetails" -> {"photo_id", "datetaken", "title", "url_c",
                                 "url_l", "url_m", "url_n", "url_o", "url_q",
                                 "url_s", "url_sq", "url_t", "url_z"}
      [] t = "history"       -> {"id", "node_id", "timestamp"}
      [] t = "lophoto"       -> {"id", "node_id", "filename", "uri", "created"}
      [] t = "node"          -> {"id", "parent_id", "created", "modified",
                                 "revcnt", "type"}
      [] t = "taxonomy"      -> {"id", "node_id", "term_id", "created"}
      [] t = "term"          -> {"id", "vocabulary_id", "name", "description"}
      [] t = "vocabulary"    -> {"id", "name", "description", "weight"}
      [] t = "users"         -> {"id", "username", "password_hash"}

\* The column declared primary_key=True.
PrimaryKey(t) == IF t = "flickrdetails" THEN "photo_id" ELSE "id"

\* The columns declared Text; the others are Integer.
TextColumns(t) ==
    CASE t = "content"       -> {"title", "body"}
      [] t = "flickrdetails" -> Columns(t) \ {"photo_id", "datetaken"}
      [] t = "lophoto"       -> {"filename", "uri"}
      [] t = "node"          -> {"type"}
      [] t = "term"          -> {"name", "description"}
      [] t = "vocabulary"    -> {"name", "description"}
      [] t = "users"         -> {"username", "password_hash"}
      [] OTHER               -> {}

\* The columns declared nullable=False.
NotNull(t) ==
    CASE t = "content"       -> {"title"}
      [] t = "flickr"        -> {}
      [] t = "flickrdetails" -> Columns(t) \ {"photo_id"}
      [] t = "history"       -> {"node_id", "timestamp"}
      [] t = "lophoto"       -> {"node_id", "filename", "uri", "created"}
      [] t = "node"          -> {"parent_id", "created", "modified"}
      [] t = "taxonomy"      -> {"node_id", "term_id", "created"}
      [] t = "term"          -> {"vocabulary_id", "name"}
      [] t = "vocabulary"    -> {"name"}
      [] t = "users"         -> {"username"}

\* The unique=True declarations with Content.node_id's and Flickr.node_id's
\* left out.
UniqueColumnsNoNodeId(t) ==
    CASE t = "vocabulary" -> {"name"}
      [] t = "users"      -> {"username"}
      [] OTHER            -> {}

\* The columns declared unique=True.
UniqueColumns(t) ==
    CASE t = "content"    -> {"node_id"}
      [] t = "flickr"     -> {"node_id"}
      [] t = "vocabulary" -> {"name"}
      [] t = "users"      -> {"username"}
      [] OTHER            -> {}

\* The table CREATE TABLE makes for a declared class: no rows, and the
\* constraints of its Column declarations.
CreateTable(t) ==
    [cols    |-> Columns(t),
     pk      |-> PrimaryKey(t),
     notnull |-> NotNull(t),
     unique  |-> UniqueColumns(t),
     rows    |-> {}]

\* create_all skips the tables the file already has (checkfirst) and
\* creates the other declared ones.
CreateAll(tbls) ==
    [t \in (DOMAIN tbls) \cup DeclaredTables |->
        IF t \in DOMAIN tbls THEN tbls[t] ELSE CreateTable(t)]

NoTables == [t \in {} |-> {}]

TotalRows(tbls) ==
    LET RECURSIVE Sum(_)
        Sum(S) == IF S = {} THEN 0
                  ELSE LET t == CHOOSE x \in S : TRUE
                       IN Cardinality(tbls[t].rows) + Sum(S \ {t})
    IN Sum(DOMAIN tbls)

----------------------------------------------------------------------------
(* The database file before the program touches it *)

\* A table of an older layout: the columns of Content, no constraint but
\* the primary key, and rows no declared constraint would admit.
LegacyContent ==
    [cols    |-> Columns("content"),
     pk      |-> "id",
     notnull |-> {},
     unique  |-> {},
     rows    |-> {[id |-> Some(1), node_id |-> Some(1), title |-> None,
                   body |-> None],
                  [id |-> Some(2), node_id |-> Some(1), title |-> Some(<<"x">>),
                   body |-> Some(<<"x">>)]}]

\* A table no declared class describes.
LegacyOther ==
    [cols    |-> {"id"},
     pk      |-> "id",
     notnull |-> {},
     unique  |-> {},
     rows    |-> {}]

\* The files rebuild() and the loader may find: none, an empty file, a file
\* of an older layout, a file with the declared schema.
PriorFiles ==
    {[exists |-> FALSE, tables |-> NoTables],
     [exists |-> TRUE,  tables |-> NoTables],
     [exists |-> TRUE,  tables |-> ("content" :> LegacyContent) @@
                                   ("legacy" :> LegacyOther)],
     [exists |-> TRUE,  tables |-> CreateAll(NoTables)]}

HasDb(c) == "Main" \in DOMAIN c /\ "db" \in DOMAIN c["Main"]

\* The path of the database file, character by character.
DbPath == <<"t", "u", "i", "n", ".", "d", "b">>

\* The configurations my_env.init_env may return: with the Main/db key,
\* with a Main section that lacks db, without a Main section.
Configs ==
    {("Main" :> ("db" :> DbPath)),
     ("Main" :> ("logdir" :> "log")),
     ("Log" :> ("logdir" :> "log"))}

----------------------------------------------------------------------------
(* DirectConn *)

\* DirectConn.__init__: reads config['Main']['db'].  Without the key the
\* constructor raises KeyError and there is no object to call rebuild() on.
DirectConnInit ==
    /\ rpc = "new"
    /\ HasDb(cfg)
    /\ rpc' = "idle"
    /\ self_db' = cfg["Main"]["db"]
    /\ dbConn' = ""
    /\ cur' = ""
    /\ UNCHANGED <<fileExists, tables, cfg, rres, inres>>
    /\ UNCHANGED qVars

\* rebuild() with the os.remove call lost: the file is kept.
RebuildRemoveKeepsFile ==
    /\ rpc = "idle"
    /\ IF fileExists
       THEN /\ rpc' = "connect"
            /\ rres' = "none"
       ELSE /\ rpc' = "idle"
            /\ rres' = "FileNotFoundError"
    /\ UNCHANGED <<fileExists, tables, cfg, self_db, dbConn, cur, inres>>
    /\ UNCHANGED qVars

\* rebuild() that tolerates a missing file (os.remove guarded by an
\* existence test).
RebuildRemoveIgnoresMissing ==
    /\ rpc = "idle"
    /\ fileExists' = FALSE
    /\ tables' = NoTables
    /\ rpc' = "connect"
    /\ rres' = "none"
    /\ UNCHANGED <<cfg, self_db, dbConn, cur, inres>>
    /\ UNCHANGED qVars

\* rebuild(), line 172: os.remove(self.db).  A missing file raises
\* FileNotFoundError, which ends the call.
RebuildRemove ==
    /\ rpc = "idle"
    /\ IF fileExists
       THEN /\ fileExists' = FALSE
            /\ tables' = NoTables
            /\ rpc' = "connect"
            /\ rres' = "none"
       ELSE /\ rpc' = "idle"
            /\ rres' = "FileNotFoundError"
            /\ UNCHANGED <<fileExists, tables>>
    /\ UNCHANGED <<cfg, self_db, dbConn, cur, inres>>
    /\ UNCHANGED qVars

\* rebuild(), line 174: _connect2db.  sqlite3.connect creates the file when
\* it is missing.
RebuildConnect ==
    /\ rpc = "connect"
    /\ fileExists' = TRUE
    /\ dbConn' = "connection"
    /\ cur' = "cursor"
    /\ rpc' = "create_all"
    /\ UNCHANGED <<tables, cfg, rres, self_db, inres>>
    /\ UNCHANGED qVars

\* rebuild(), lines 176-178: set_engine and Base.metadata.create_all.
RebuildCreateAll ==
    /\ rpc = "create_all"
    /\ fileExists' = TRUE
    /\ tables' = CreateAll(tables)
    /\ rpc' = "idle"
    /\ rres' = "done"
    /\ UNCHANGED <<cfg, self_db, dbConn, cur, inres>>
    /\ UNCHANGED qVars

----------------------------------------------------------------------------
(* Inserts: the loader's session.add(row) and session.commit() *)

Max(S) == CHOOSE x \in S : \A y \in S : y <= x

\* The rowid SQLite gives a row inserted with a NULL INTEGER PRIMARY KEY.
NextRowid(tb) ==
    IF tb.rows = {} THEN 1 ELSE Max({Get(r[tb.pk]) : r \in tb.rows}) + 1

\* The row as stored: a NULL primary key is replaced by the next rowid.
Stored(tb, row) ==
    IF IsNone(row[tb.pk]) THEN [row EXCEPT ![tb.pk] = Some(NextRowid(tb))]
    ELSE row

\* The constraints of the table admit the row: the primary key is new, no
\* NOT NULL column is NULL, and no UNIQUE column repeats a value of another
\* row (SQLite: NULLs are distinct from each other in a UNIQUE column).
Accepts(tb, r) ==
    /\ \A o \in tb.rows : o[tb.pk] # r[tb.pk]
    /\ \A c \in tb.notnull : ~IsNone(r[c])
    /\ \A c \in tb.unique :
          IsNone(r[c]) \/ \A o \in tb.rows : o[c] # r[c]

\* One insert and commit.  Connecting creates a missing file; a missing
\* table raises OperationalError; a constraint violation raises
\* IntegrityError and the transaction is rolled back.
Insert(t, row) ==
    /\ fileExists' = TRUE
    /\ IF t \notin DOMAIN tables
       THEN /\ inres' = "OperationalError"
            /\ tables' = tables
       ELSE IF Accepts(tables[t], Stored(tables[t], row))
       THEN /\ TotalRows(tables) < MaxRows
            /\ inres' = "ok"
            /\ tables' = [tables EXCEPT
                             ![t].rows = @ \cup {Stored(tables[t], row)}]
       ELSE /\ inres' = "IntegrityError"
            /\ tables' = tables
    /\ UNCHANGED <<cfg, rpc, rres, self_db, dbConn, cur>>
    /\ UNCHANGED qVars

DefaultText == <<"x">>
Texts == {<<"x">>, <<"y">>}

Values(t, c) == IF c \in TextColumns(t) THEN Texts ELSE 1..MaxInt

DefaultRow(t) ==
    [c \in Columns(t) |->
        IF c \in TextColumns(t) THEN Some(DefaultText) ELSE Some(1)]

\* The classes whose id is declared autoincrement=True.
Autoincrement ==
    {"content", "flickr", "history", "lophoto", "taxonomy", "vocabulary",
     "users"}

\* The rows the loader inserts: the primary key NULL (or 1, where the key is
\* not declared autoincrement), and either every other column at its
\* default, or one column NULL, or one unique column at any value.
StoreRows(t) ==
    LET pks == IF t \in Autoincrement THEN {None} ELSE {None, Some(1)}
        base(p) == [DefaultRow(t) EXCEPT ![PrimaryKey(t)] = p]
    IN {base(p) : p \in pks}
       \cup {[base(p) EXCEPT ![c] = None] :
                p \in pks, c \in Columns(t) \ {PrimaryKey(t)}}
       \cup UNION {{[base(p) EXCEPT ![c] = Some(v)] : v \in Values(t, c)} :
                p \in pks, c \in UniqueColumns(t)}

----------------------------------------------------------------------------
(* The store alone: rebuild() and the loader *)

InitCommon ==
    /\ rpc = "new"
    /\ rres = "none"
    /\ self_db = ""
    /\ dbConn = ""
    /\ cur = ""
    /\ inres = "none"
    /\ qpc = "read_db"
    /\ qerr = "none"
    /\ db = None
    /\ tuin = None
    /\ contents = <<>>
    /\ it = 0
    /\ cnt = 0
    /\ output = <<>>

InitStore ==
    /\ \E f \in PriorFiles :
          /\ fileExists = f.exists
          /\ tables = f.tables
    /\ cfg = ("Main" :> ("db" :> DbPath))
    /\ InitCommon

StoreInsert == \E t \in DeclaredTables : \E row \in StoreRows(t) : Insert(t, row)

NextStore ==
    \/ DirectConnInit
    \/ RebuildRemove
    \/ RebuildConnect
    \/ RebuildCreateAll
    \/ StoreInsert

SpecStore == InitStore /\ [][NextStore]_vars

----------------------------------------------------------------------------
(* Text: LIKE, str.format, print *)

UpperCase ==
    <<"A", "B", "C", "D", "E", "F", "G", "H", "I", "J", "K", "L", "M",
      "N", "O", "P", "Q", "R", "S", "T", "U", "V", "W", "X", "Y", "Z">>
LowerCase ==
    <<"a", "b", "c", "d", "e", "f", "g", "h", "i", "j", "k", "l", "m",
      "n", "o", "p", "q", "r", "s", "t", "u", "v", "w", "x", "y", "z">>

\* SQLite compares LIKE operands with the ASCII letters folded to one case.
Fold(ch) ==
    IF \E i \in DOMAIN UpperCase : UpperCase[i] = ch
    THEN LowerCase[CHOOSE i \in DOMAIN UpperCase : UpperCase[i] = ch]
    ELSE ch

\* How the LIKE operator compares one character.
LikeChar(ch) == Fold(ch)

\* text LIKE pattern: % matches any run of characters, _ any one character,
\* every other character itself up to ASCII case.
RECURSIVE LikeMatch(_, _)
LikeMatch(pattern, text) ==
    IF pattern = <<>> THEN text = <<>>
    ELSE IF Head(pattern) = "%"
    THEN \/ LikeMatch(Tail(pattern), text)
         \/ text # <<>> /\ LikeMatch(pattern, Tail(text))
    ELSE IF text = <<>> THEN FALSE
    ELSE IF Head(pattern) = "_" THEN LikeMatch(Tail(pattern), Tail(text))
    ELSE /\ LikeChar(Head(pattern)) = LikeChar(Head(text))
         /\ LikeMatch(Tail(pattern), Tail(text))

\* find_link.py line 14 (the literal, character by character).
str2find ==
    <<"s", "n", "o", "e", "i", "t", "e", "c", "h", "n", "i", "e", "k",
    "e", "n", "-", "e", "n", "-", "o", "n", "d", "e", "r", "h", "o",
    "u", "d", "/", "p", "l", "a", "n", "t", "e", "n", "f", "a", "m",
    "i", "l", "i", "e", "s">>

\* A pattern that lost its leading wildcard.
PatternPrefixOnly(s2r) == s2r \o <<"%">>

\* A pattern that lost the search string.
PatternAnything(s2r) == <<"%">>

\* "%{s2r}%".format(s2r=...)
Pattern(s2r) == <<"%">> \o s2r \o <<"%">>

\* Content.body.like(pattern) as a WHERE clause: NULL LIKE p is NULL, and
\* the row is filtered out.
BodyLike(row, pattern) ==
    /\ ~IsNone(row.body)
    /\ LikeMatch(pattern, Get(row.body))

\* The rows the filter keeps.
Matches(rows) == {r \in rows : BodyLike(r, Pattern(str2find))}

\* The orders in which the rows of S can be returned (the query has no
\* ORDER BY).
Orders(S) ==
    {s \in [1..Cardinality(S) -> S] :
        \A i, j \in 1..Cardinality(S) : i # j => s[i] # s[j]}

Digits == <<"0", "1", "2", "3", "4", "5", "6", "7", "8", "9">>

\* str(n) for n >= 0.
RECURSIVE Str(_)
Str(n) ==
    IF n < 10 THEN <<Digits[n + 1]>>
    ELSE Str(n \div 10) \o <<Digits[(n % 10) + 1]>>

\* "Count: {c}".format(c=...)
CountLine(c) == <<"C", "o", "u", "n", "t", ":", " ">> \o Str(c)

\* What print(content.title) writes.
TitleLine(row) ==
    IF IsNone(row.title) THEN <<"N", "o", "n", "e">> ELSE Get(row.title)

----------------------------------------------------------------------------
(* init_session and its helpers *)

set_engine(conn_string, echo) == [url |-> conn_string, echo |-> echo]

set_session4engine(engine) == [bind |-> engine]

\* "sqlite:///{db}".format(db=...)
ConnString(d) == <<"s", "q", "l", "i", "t", "e", ":", "/", "/", "/">> \o d

init_session(d, echo) ==
    set_session4engine(set_engine(ConnString(d), echo))

\* The file a session's engine opens when it first connects: what follows
\* the scheme and the three slashes of its URL.
PathOf(session) ==
    LET url == session.bind.url
    IN IF Len(url) >= 10 /\ SubSeq(url, 1, 10) = ConnString(<<>>)
       THEN SubSeq(url, 11, Len(url))
       ELSE <<>>

----------------------------------------------------------------------------
(* find_link.py *)

\* Line 10 with a fallback path in place of the subscript.
ScriptReadDbWithDefault ==
    /\ qpc = "read_db"
    /\ db' = IF HasDb(cfg) THEN Some(cfg["Main"]["db"]) ELSE Some(DbPath)
    /\ qpc' = "init_session"
    /\ UNCHANGED <<fileExists, tables, cfg, inres, qerr, tuin, contents, it,
                   cnt, output>>
    /\ UNCHANGED dcVars

\* Line 10: db = cfg['Main']['db'].  A missing section or key raises KeyError.
ScriptReadDb ==
    /\ qpc = "read_db"
    /\ IF HasDb(cfg)
       THEN /\ db' = Some(cfg["Main"]["db"])
            /\ qpc' = "init_session"
            /\ qerr' = qerr
       ELSE /\ qerr' = "KeyError"
            /\ qpc' = "failed"
            /\ db' = db
    /\ UNCHANGED <<fileExists, tables, cfg, inres, tuin, contents, it, cnt,
                   output>>
    /\ UNCHANGED dcVars

\* init_session that also issues the schema-creation statements.
InitSessionCreatesSchema(echo) ==
    /\ qpc = "init_session"
    /\ tuin' = Some(init_session(Get(db), echo))
    /\ qpc' = "query"
    /\ fileExists' = TRUE
    /\ tables' = CreateAll(tables)
    /\ UNCHANGED <<cfg, inres, qerr, db, contents, it, cnt, output>>
    /\ UNCHANGED dcVars

\* init_session that refuses a path at which there is no file.
InitSessionRequiresFile(echo) ==
    /\ qpc = "init_session"
    /\ IF fileExists
       THEN /\ tuin' = Some(init_session(Get(db), echo))
            /\ qpc' = "query"
            /\ qerr' = qerr
       ELSE /\ qerr' = "OperationalError"
            /\ qpc' = "failed"
            /\ tuin' = tuin
    /\ UNCHANGED <<fileExists, tables, cfg, inres, db, contents, it, cnt,
                   output>>
    /\ UNCHANGED dcVars

\* Line 12: tuin = init_session(db, echo).  create_engine and sessionmaker
\* open no connection: the file is not touched.
InitSession(echo) ==
    /\ qpc = "init_session"
    /\ tuin' = Some(init_session(Get(db), echo))
    /\ qpc' = "query"
    /\ UNCHANGED <<fileExists, tables, cfg, inres, qerr, db, contents, it,
                   cnt, output>>
    /\ UNCHANGED dcVars

\* Lines 15-16 of a query that waits for a rebuild in progress to finish.
ScriptQueryAfterRebuild ==
    /\ qpc = "query"
    /\ rpc \notin {"connect", "create_all"}
    /\ PathOf(Get(tuin)) = DbPath
    /\ fileExists' = TRUE
    /\ tables' = tables
    /\ it' = 0
    /\ cnt' = 0
    /\ IF "content" \in DOMAIN tables
       THEN /\ contents' \in Orders(Matches(tables["content"].rows))
            /\ qpc' = "loop"
            /\ qerr' = qerr
       ELSE /\ qerr' = "OperationalError"
            /\ qpc' = "failed"
            /\ contents' = contents
    /\ UNCHANGED <<cfg, inres, db, tuin, output>>
    /\ UNCHANGED dcVars

\* Lines 15-16: the query and cnt = 0.  The session connects here, which
\* creates a missing file; a file without a content table raises
\* OperationalError (no such table).
ScriptQuery ==
    /\ qpc = "query"
    /\ PathOf(Get(tuin)) = DbPath
    /\ fileExists' = TRUE
    /\ tables' = tables
    /\ it' = 0
    /\ cnt' = 0
    /\ IF "content" \in DOMAIN tables
       THEN /\ contents' \in Orders(Matches(tables["content"].rows))
            /\ qpc' = "loop"
            /\ qerr' = qerr
       ELSE /\ qerr' = "OperationalError"
            /\ qpc' = "failed"
            /\ contents' = contents
    /\ UNCHANGED <<cfg, inres, db, tuin, output>>
    /\ UNCHANGED dcVars

\* The loop body with the counter advanced before the title is read off.
ScriptLoopCountsTwice ==
    /\ qpc = "loop"
    /\ it < Len(contents)
    /\ it' = it + 1
    /\ cnt' = cnt + 2
    /\ output' = Append(output, TitleLine(contents[it + 1]))
    /\ UNCHANGED <<fileExists, tables, cfg, inres, qpc, qerr, db, tuin,
                   contents>>
    /\ UNCHANGED dcVars

\* Lines 17-19: one turn of the loop.
ScriptLoop ==
    /\ qpc = "loop"
    /\ it < Len(contents)
    /\ it' = it + 1
    /\ cnt' = cnt + 1
    /\ output' = Append(output, TitleLine(contents[it + 1]))
    /\ UNCHANGED <<fileExists, tables, cfg, inres, qpc, qerr, db, tuin,
                   contents>>
    /\ UNCHANGED dcVars

\* Line 20: the summary line, once the loop is exhausted.
ScriptCount ==
    /\ qpc = "loop"
    /\ it = Len(contents)
    /\ output' = Append(output, CountLine(cnt))
    /\ qpc' = "done"
    /\ UNCHANGED <<fileExists, tables, cfg, inres, qerr, db, tuin, contents,
                   it, cnt>>
    /\ UNCHANGED dcVars

----------------------------------------------------------------------------
(* The script over a loaded database *)

Titles == {<<"a">>, <<"b">>}

\* str2find with its first letter in upper case.
Capitalised == [str2find EXCEPT ![1] = "S"]
\* str2find without its last character.
Truncated == SubSeq(str2find, 1, Len(str2find) - 1)

\* The bodies the loader stores: the search string, a case variant of it and
\* a truncation of it, each alone and with text on both sides, and the
\* empty text.
Bodies ==
    LET mids == {str2find, Capitalised, Truncated}
    IN mids \cup {<<"x">> \o mid \o <<"x">> : mid \in mids} \cup {<<>>}

FindRows ==
    {[id |-> None, node_id |-> None, title |-> Some(t), body |-> b] :
        t \in Titles, b \in {None} \cup {Some(x) : x \in Bodies}}

\* The loader fills the content table until the script runs its query.
FindInsert ==
    /\ qpc \in {"read_db", "init_session", "query"}
    /\ \E row \in FindRows : Insert("content", row)

\* find_link.py calls init_session(db=db): echo takes its default.
ScriptInitSession == InitSession(FALSE)

InitFind ==
    /\ \E f \in {[exists |-> FALSE, tables |-> NoTables],
                 [exists |-> TRUE,  tables |-> CreateAll(NoTables)]} :
          /\ fileExists = f.exists
          /\ tables = f.tables
    /\ cfg \in Configs
    /\ InitCommon

NextFind ==
    \/ FindInsert
    \/ ScriptReadDb
    \/ ScriptInitSession
    \/ ScriptQuery
    \/ ScriptLoop
    \/ ScriptCount

SpecFind == InitFind /\ [][NextFind]_vars

----------------------------------------------------------------------------
(* rebuild() running beside a client of init_session *)

\* A loaded database: one row that holds the search string, one that does
\* not.
LoadedContent ==
    [CreateTable("content") EXCEPT
        !.rows = {[id |-> Some(1), node_id |-> Some(1), title |-> Some(<<"a">>),
                   body |-> Some(<<"x">> \o str2find)],
                  [id |-> Some(2), node_id |-> None, title |-> Some(<<"b">>),
                   body |-> Some(<<"x">>)]}]

RaceFiles ==
    {[CreateAll(NoTables) EXCEPT !["content"] = LoadedContent],
     ("content" :> LegacyContent) @@ ("legacy" :> LegacyOther),
     ("content" :> LoadedContent)}

\* init_session(db, echo) called with either value of echo: find_link.py
\* passes the default, a caller that wants the statements logged passes True.
OpenSession == \E echo \in BOOLEAN : InitSession(echo)

\* A database in use: the file exists and holds a content table.
Init ==
    /\ fileExists = TRUE
    /\ tables \in RaceFiles
    /\ cfg = ("Main" :> ("db" :> DbPath))
    /\ InitCommon

Next ==
    \/ DirectConnInit
    \/ RebuildRemove
    \/ RebuildConnect
    \/ RebuildCreateAll
    \/ ScriptReadDb
    \/ OpenSession
    \/ ScriptQuery
    \/ ScriptLoop
    \/ ScriptCount

Spec == Init /\ [][Next]_vars

----------------------------------------------------------------------------
(* Well-formedness of the state *)

TypeOK ==
    /\ fileExists \in BOOLEAN
    /\ (~fileExists => tables = NoTables)
    /\ rpc \in {"new", "idle", "connect", "create_all"}
    /\ rres \in {"none", "done", "FileNotFoundError"}
    /\ inres \in {"none", "ok", "OperationalError", "IntegrityError"}
    /\ qpc \in {"read_db", "init_session", "query", "loop", "done", "failed"}
    /\ qerr \in {"none", "KeyError", "OperationalError"}
    /\ it \in 0..Len(contents)
    /\ TotalRows(tables) <= MaxRows


----------------------------------------------------------------------------
(* Vocabulary of the properties *)

TenTables ==
    {"content", "flickr", "flickrdetails", "history", "lophoto", "node",
     "taxonomy", "term", "vocabulary", "users"}

RowsOf(t) == IF t \in DOMAIN tables THEN tables[t].rows ELSE {}

AllEmpty(tbls) == \A t \in DOMAIN tbls : tbls[t].rows = {}

\* sub occurs in text, character for character.
Occurs(sub, text) ==
    \E k \in 0..(Len(text) - Len(sub)) :
        \A j \in 1..Len(sub) : text[k + j] = sub[j]

\* sub occurs in text when the ASCII letters of both are read in lower case.
OccursFolded(sub, text) ==
    \E k \in 0..(Len(text) - Len(sub)) :
        \A j \in 1..Len(sub) : Fold(text[k + j]) = Fold(sub[j])

ContainsExact(row) == ~IsNone(row.body) /\ Occurs(str2find, Get(row.body))
ContainsFolded(row) ==
    ~IsNone(row.body) /\ OccursFolded(str2find, Get(row.body))

\* The step of find_link.py that runs the query and gets a result.
QueryReturns == qpc = "query" /\ qpc' = "loop"

\* The database is the product of a completed rebuild().
Rebuilt == rres = "done"

RebuildWindow == {"connect", "create_all"}

----------------------------------------------------------------------------
(* C1 *)

\* C1: the step that completes rebuild() on an existing file leaves a file
\* with exactly the ten declared tables, each with zero rows, whatever the
\* file held before.
C1_RebuildLeavesTenEmptyTables ==
    [][(rpc = "create_all" /\ rpc' = "idle") =>
          /\ rres' = "done"
          /\ fileExists'
          /\ DOMAIN tables' = TenTables
          /\ AllEmpty(tables')]_vars

\* A rebuild completed on a file into which a row had been inserted.
C1_Witness ==
    /\ rres = "done"
    /\ rpc = "idle"
    /\ inres = "ok"
    /\ DOMAIN tables = TenTables
    /\ AllEmpty(tables)

----------------------------------------------------------------------------
(* C2 *)

\* C2: a rebuild() call made while the file is absent ends at the delete
\* step with FileNotFoundError: no connection or cursor is made, no file is
\* created, no table is created, and the file is absent after the call.
C2_MissingFileFailsAtRemove ==
    /\ [][(rpc = "idle" /\ ~fileExists /\ dcVars' # dcVars) =>
             /\ rres' = "FileNotFoundError"
             /\ rpc' = "idle"
             /\ dbConn' = dbConn
             /\ cur' = cur
             /\ ~fileExists'
             /\ tables' = NoTables]_vars
    /\ [](rres = "FileNotFoundError" => rpc = "idle")

\* rebuild() has failed on a missing file and the file is still missing.
C2_Witness ==
    /\ rres = "FileNotFoundError"
    /\ ~fileExists
    /\ dbConn = ""
    /\ cur = ""

----------------------------------------------------------------------------
(* C3 *)

\* C3: init_session on an existing file returns a session bound to that
\* file and changes neither the file's existence nor its tables nor its
\* rows, for echo False and echo True.
C3_InitSessionLeavesFile ==
    [][(qpc = "init_session" /\ qpc' # qpc /\ fileExists) =>
          /\ fileExists' = fileExists
          /\ tables' = tables
          /\ qpc' = "query"
          /\ qerr' = "none"
          /\ ~IsNone(tuin')
          /\ PathOf(Get(tuin')) = Get(db)]_vars

\* A session opened with echo=True on a file no rebuild has touched.
C3_Witness ==
    /\ qpc = "query"
    /\ rpc = "new"
    /\ fileExists
    /\ ~IsNone(tuin)
    /\ Get(tuin).bind.echo = TRUE

----------------------------------------------------------------------------
(* C4 *)

\* C4: every Content row whose body contains the search string is in the
\* match set the query returns, and on a completed run its title has been
\* printed, whatever other rows the table holds.
C4_EveryContainingRowMatched ==
    /\ [][QueryReturns =>
             \A r \in RowsOf("content") :
                 ContainsExact(r) => r \in Range(contents')]_vars
    /\ [](qpc = "done" =>
             \A i \in DOMAIN contents :
                 /\ i \in DOMAIN output
                 /\ ~IsNone(contents[i].title) =>
                        output[i] = Get(contents[i].title))

\* A completed run that matched a row of a table holding another row too.
C4_Witness ==
    /\ qpc = "done"
    /\ \E r \in RowsOf("content") : ContainsExact(r) /\ r \in Range(contents)
    /\ \E r \in RowsOf("content") : r \notin Range(contents)

----------------------------------------------------------------------------
(* C5 *)

\* C5 as stated: a row whose body does not contain the search string as an
\* exact, case-sensitive substring is never in the match set.
C5_Original ==
    [][QueryReturns =>
          \A r \in RowsOf("content") :
              ~ContainsExact(r) => r \notin Range(contents')]_vars

\* C5, amended: a row whose body is NULL, or does not contain the search
\* string even when ASCII letter case is ignored, is never in the match
\* set, and every line printed before the summary is the title of a row of
\* the match set.
C5_NonContainingRowNeverMatched ==
    /\ [][QueryReturns =>
             \A r \in RowsOf("content") :
                 ~ContainsFolded(r) => r \notin Range(contents')]_vars
    /\ [](qpc \in {"loop", "done"} =>
             \A i \in 1..it : output[i] = TitleLine(contents[i]))

\* A query has run over a row with a NULL body and a row whose body is the
\* search string cut short, and returned neither.
C5_Witness ==
    /\ qpc \in {"loop", "done"}
    /\ \E r \in RowsOf("content") : IsNone(r.body) /\ r \notin Range(contents)
    /\ \E r \in RowsOf("content") :
          /\ ~IsNone(r.body)
          /\ ~ContainsFolded(r)
          /\ r \notin Range(contents)

----------------------------------------------------------------------------
(* C6 *)

DecimalDigit(n) ==
    CASE n = 0 -> "0" [] n = 1 -> "1" [] n = 2 -> "2" [] n = 3 -> "3"
      [] n = 4 -> "4" [] n = 5 -> "5" [] n = 6 -> "6" [] n = 7 -> "7"
      [] n = 8 -> "8" [] n = 9 -> "9"

SummaryLine(n) == <<"C", "o", "u", "n", "t", ":", " ", DecimalDigit(n)>>

\* C6: a run that completes has printed one line per matched row, in the
\* order of the match list, and then one summary line "Count: n" with n the
\* number of matched rows; with no match the output is the single line
\* "Count: 0".  Before the loop ends nothing but title lines is printed, and
\* before the query nothing at all.
C6_TitlesThenCount ==
    /\ Cardinality(Range(contents)) = Len(contents)
    /\ (qpc \in {"read_db", "init_session", "query", "failed"} =>
           output = <<>>)
    /\ (qpc = "loop" => Len(output) = it /\ it <= Len(contents))
    /\ (qpc = "done" =>
           /\ Len(output) = Len(contents) + 1
           /\ \A i \in 1..Len(contents) : output[i] = TitleLine(contents[i])
           /\ output[Len(output)] = SummaryLine(Len(contents))
           /\ (contents = <<>> =>
                  output = <<<<"C", "o", "u", "n", "t", ":", " ", "0">>>>))

\* A completed run with two matches.
C6_Witness ==
    /\ qpc = "done"
    /\ Len(contents) = 2
    /\ Len(output) = 3

----------------------------------------------------------------------------
(* C7 *)

\* C7: init_session on a path with no file returns a session and raises
\* nothing, and leaves the path without a file; the first use of the session
\* brings the file into being as an empty database.
C7_MissingFileIsNoError ==
    /\ [][(qpc = "init_session" /\ qpc' # qpc /\ ~fileExists) =>
             /\ qpc' = "query"
             /\ qerr' = "none"
             /\ ~IsNone(tuin')
             /\ ~fileExists'
             /\ tables' = NoTables]_vars
    /\ [][(qpc = "query" /\ qpc' # qpc /\ ~fileExists) =>
             /\ fileExists'
             /\ tables' = NoTables]_vars

\* init_session has returned a session for a path that has no file.
C7_Witness ==
    /\ qpc = "query"
    /\ qerr = "none"
    /\ ~IsNone(tuin)
    /\ ~fileExists

----------------------------------------------------------------------------
(* C8 *)

NoSharedValue(t, c) ==
    \A r1, r2 \in RowsOf(t) : r1 # r2 => r1[c] # r2[c]

NoSharedNonNull(t, c) ==
    \A r1, r2 \in RowsOf(t) : (r1 # r2 /\ ~IsNone(r1[c])) => r1[c] # r2[c]

RequiredNonNull ==
    \A t \in TenTables : \A r \in RowsOf(t) : \A c \in NotNull(t) :
        ~IsNone(r[c])

\* C8 as stated: in a rebuilt database no two Content rows and no two Flickr
\* rows share a node_id, no two User rows a username, no two Vocabulary rows
\* a name, and no required column holds NULL.
C8_Original ==
    Rebuilt =>
        /\ NoSharedValue("content", "node_id")
        /\ NoSharedValue("flickr", "node_id")
        /\ NoSharedValue("users", "username")
        /\ NoSharedValue("vocabulary", "name")
        /\ RequiredNonNull

\* C8, amended: in a rebuilt database no two Content rows and no two Flickr
\* rows share a node_id that is not NULL (any number of rows may have a NULL
\* node_id), no two User rows share a username, no two Vocabulary rows a
\* name, and no required column holds NULL; an insert that is rejected
\* leaves every table unchanged.
C8_UniqueAndRequired ==
    /\ [](Rebuilt =>
             /\ NoSharedNonNull("content", "node_id")
             /\ NoSharedNonNull("flickr", "node_id")
             /\ NoSharedValue("users", "username")
             /\ NoSharedValue("vocabulary", "name")
             /\ RequiredNonNull)
    /\ [][(inres' = "IntegrityError" /\ dcVars' = dcVars) =>
             tables' = tables]_vars

\* A rebuilt database with two Content rows of NULL node_id, whose last
\* insert was rejected.
C8_Witness ==
    /\ Rebuilt
    /\ inres = "IntegrityError"
    /\ \E r1, r2 \in RowsOf("content") :
          r1 # r2 /\ IsNone(r1.node_id) /\ IsNone(r2.node_id)

----------------------------------------------------------------------------
(* C9 *)

MissingKey == "Main" \notin DOMAIN cfg \/ "db" \notin DOMAIN cfg["Main"]

\* C9: with a configuration that lacks Main/db the script ends with KeyError
\* where it reads the key: db is never set, no session is made, no query
\* result exists, and nothing is printed.
C9_MissingKeyStopsBeforeSession ==
    MissingKey =>
        /\ qpc \in {"read_db", "failed"}
        /\ (qpc = "failed" => qerr = "KeyError")
        /\ IsNone(db)
        /\ IsNone(tuin)
        /\ contents = <<>>
        /\ output = <<>>

\* The script has failed on a configuration whose Main section lacks db.
C9_Witness ==
    /\ "Main" \in DOMAIN cfg
    /\ "db" \notin DOMAIN cfg["Main"]
    /\ qpc = "failed"
    /\ qerr = "KeyError"

----------------------------------------------------------------------------
(* C10 *)

\* C10: between rebuild()'s delete and its create_all the file has no
\* content table, and a script that has reached its query can run it right
\* then and gets the no-such-table error, neither the old rows nor the empty
\* table.
C10_QueryInsideRebuild ==
    rpc \in RebuildWindow =>
        /\ "content" \notin DOMAIN tables
        /\ (qpc = "query" =>
               ENABLED (ScriptQuery /\ qpc' = "failed"
                                    /\ qerr' = "OperationalError"))

\* The script's query has failed while rebuild() stands between its delete
\* and the end of its create_all.
C10_Witness ==
    /\ rpc \in RebuildWindow
    /\ qpc = "failed"
    /\ qerr = "OperationalError"
    /\ contents = <<>>

====
